---- MODULE Spec2Model ----
(***************************************************************************)
(* console-log-extension: the ConsoleLogExtension class of src/index.js.   *)
(*                                                                         *)
(* Strings are TLA+ strings; a character of s is SubSeq(s, i, i).  The     *)
(* host's console.log is modelled by the list of calls it received, each   *)
(* call being the sequence of its arguments.                               *)
(***************************************************************************)
EXTENDS Integers, Sequences, FiniteSets, TLC

VARIABLES
    config,         \* this.config
    op,             \* the last operation run: "none", "init", "log", "resolve"
    userConfig,     \* the argument of the last init call
    args,           \* the arguments of the last log call
    env,            \* what the host gave the last log call (stack, clock, failure)
    calls,          \* the console.log calls the last operation made, in order
    resolverCalls,  \* how many times the last operation ran findRealCaller
    thrown,         \* the error that escaped the last operation, or "none"
    hist,           \* the partials of the init calls so far (history)
    frames,         \* the frame lines the resolver's trace was built from
    stack,          \* err.stack as read by a stand-alone findRealCaller
    caller          \* what that findRealCaller returned

vars == <<config, op, userConfig, args, env, calls, resolverCalls, thrown,
          hist, frames, stack, caller>>

\* ------------------------------------------------------------------ bounds

MaxFrames == 3      \* frame lines after the header of a trace
MaxRest == 1        \* arguments of a log call after the first
MaxInits == 2       \* init calls whose partials the history records

\* ------------------------------------------------------- string primitives

\* The character of s at position i, "" past either end.
Ch(s, i) == IF i >= 1 /\ i <= Len(s) THEN SubSeq(s, i, i) ELSE ""

\* The characters of s at positions i..j, cut at the end of s.
Slice(s, i, j) == IF j > Len(s) THEN SubSeq(s, i, Len(s)) ELSE SubSeq(s, i, j)

Digits == {"0", "1", "2", "3", "4", "5", "6", "7", "8", "9"}

\* The characters String.prototype.trim removes (WhiteSpace and LineTerminator
\* of the language) that a string of this module can hold: blank, tab, line
\* feed, carriage return, form feed, vertical tab, U+00A0, U+1680 and U+FEFF.
\* Its other members (U+2000..U+200A, U+2028, U+2029, U+202F, U+205F, U+3000)
\* cannot be written in a string here, so no string of the model contains them.
WhiteSpace == {" ", "\t", "\n", "\r", "\f", "", " ", " ", "﻿"}

\* The characters the . of a pattern does not match, as far as a string of this
\* module can hold them: line feed and carriage return (U+2028 and U+2029
\* cannot be written here).
LineTerminators == {"\n", "\r"}

\* Whether . matches each character of s at positions i..j.
Dots(s, i, j) == \A k \in i..j : Ch(s, k) \notin LineTerminators

\* String.prototype.includes
Includes(s, sub) ==
    \E i \in 1..(Len(s) - Len(sub) + 1) : SubSeq(s, i, i + Len(sub) - 1) = sub

\* String.prototype.trim
RECURSIVE TrimLeft(_)
TrimLeft(s) ==
    IF Len(s) > 0 /\ Ch(s, 1) \in WhiteSpace
    THEN TrimLeft(SubSeq(s, 2, Len(s)))
    ELSE s

RECURSIVE TrimRight(_)
TrimRight(s) ==
    IF Len(s) > 0 /\ Ch(s, Len(s)) \in WhiteSpace
    THEN TrimRight(SubSeq(s, 1, Len(s) - 1))
    ELSE s

Trim(s) == TrimRight(TrimLeft(s))

\* String.prototype.split(sep) for a one-character separator set: the pieces
\* between the separators, in order (one piece when there is no separator).
RECURSIVE SplitOn(_, _)
SplitOn(s, seps) ==
    LET cut == {i \in 1..Len(s) : Ch(s, i) \in seps}
    IN  IF cut = {}
        THEN <<s>>
        ELSE LET i == CHOOSE j \in cut : \A k \in cut : j <= k
             IN  <<SubSeq(s, 1, i - 1)>> \o SplitOn(SubSeq(s, i + 1, Len(s)), seps)

\* The values of the language that the lookup tables and prefixParts hold: a
\* string, undefined, a built-in function (value is its name) or the object
\* Object.prototype.
Str(s) == [type |-> "string", value |-> s]
Undefined == [type |-> "undefined", value |-> ""]

\* ToBoolean, as || applies it.
Truthy(v) == v.type \in {"function", "object"} \/ (v.type = "string" /\ v.value # "")

\* v || d
OrElse(v, d) == IF Truthy(v) THEN v ELSE d

\* ToString of the language, as + with a string, a template literal and join apply it.
ToText(v) ==
    CASE v.type = "string"    -> v.value
      [] v.type = "function"  -> "function " \o v.value \o "() { [native code] }"
      [] v.type = "object"    -> "[object Object]"
      [] v.type = "undefined" -> "undefined"

\* What every object literal inherits from Object.prototype, by key.
ObjectPrototype ==
    [k \in {"constructor", "toString", "toLocaleString", "valueOf", "hasOwnProperty",
            "isPrototypeOf", "propertyIsEnumerable", "__proto__", "__defineGetter__",
            "__defineSetter__", "__lookupGetter__", "__lookupSetter__"} |->
        IF k = "__proto__" THEN [type |-> "object", value |-> "Object.prototype"]
        ELSE [type |-> "function", value |-> IF k = "constructor" THEN "Object" ELSE k]]

\* own[key] for an object literal whose own properties are the strings of own:
\* the own property, else the inherited one, else undefined.
Get(own, key) ==
    IF key \in DOMAIN own THEN Str(own[key])
    ELSE IF key \in DOMAIN ObjectPrototype THEN ObjectPrototype[key]
    ELSE Undefined

\* Array.prototype.join(" ") of an array of strings, functions and objects.
RECURSIVE JoinSpace(_)
JoinSpace(parts) ==
    IF Len(parts) = 0 THEN ""
    ELSE IF Len(parts) = 1 THEN ToText(parts[1])
    ELSE ToText(parts[1]) \o " " \o JoinSpace(Tail(parts))

Min(S) == CHOOSE x \in S : \A y \in S : x <= y

\* ------------------------------------------------------- the frame pattern

\* The length of the run of digits of s that starts at position p.
RECURSIVE DigitRun(_, _)
DigitRun(s, p) == IF Ch(s, p) \in Digits THEN 1 + DigitRun(s, p + 1) ELSE 0

\* Whether :(\d+):(\d+) matches s at position p.  Each \d+ is followed by a
\* non-digit, so it can only take the whole run of digits.
LocationAt(s, p) ==
    /\ Ch(s, p) = ":"
    /\ DigitRun(s, p + 1) >= 1
    /\ Ch(s, p + 1 + DigitRun(s, p + 1)) = ":"
    /\ DigitRun(s, p + 2 + DigitRun(s, p + 1)) >= 1

\* /at (.*?) \(?(.+?):(\d+):(\d+)\)?/ tried at start s with group 1 of length a,
\* the optional "(" taken (par = 1) or not (par = 0), and group 2 ending right
\* before position p, where :(\d+):(\d+) must match; the groups are runs of
\* characters that . matches.
MatchesWith(line, s, a, par, p) ==
    /\ Slice(line, s, s + 2) = "at "
    /\ Ch(line, s + 3 + a) = " "
    /\ par = 1 => Ch(line, s + 4 + a) = "("
    /\ p > s + 4 + a + par
    /\ LocationAt(line, p)
    /\ Dots(line, s + 3, s + 2 + a)
    /\ Dots(line, s + 4 + a + par, p - 1)

\* String.prototype.match with that pattern: <<>> for null, else the groups
\* <<match[1], match[2], match[3]>>.  The engine takes the leftmost start, then
\* the shortest group 1 (lazy), then the "(" if it can (greedy), then the
\* shortest group 2 (lazy).
FrameMatch(line) ==
    LET ats  == {s \in 1..Len(line) : Slice(line, s, s + 2) = "at "}
        gaps == {g \in 1..Len(line) : Ch(line, g) = " "}
        locs == {p \in 1..Len(line) : LocationAt(line, p)}
        Ok(s, a, par) == \E p \in locs : MatchesWith(line, s, a, par, p)
        tries == {t \in ats \X gaps : /\ t[2] >= t[1] + 3
                                      /\ \E par \in {0, 1} : Ok(t[1], t[2] - t[1] - 3, par)}
    IN  IF tries = {}
        THEN <<>>
        ELSE LET s   == Min({t[1] : t \in tries})
                 a   == Min({t[2] : t \in {u \in tries : u[1] = s}}) - s - 3
                 par == IF Ok(s, a, 1) THEN 1 ELSE 0
                 p   == Min({x \in locs : MatchesWith(line, s, a, par, x)})
             IN  << SubSeq(line, s + 3, s + 2 + a),
                    SubSeq(line, s + 4 + a + par, p - 1),
                    SubSeq(line, p + 1, p + DigitRun(line, p + 1)) >>

\* ------------------------------------------------------------ findRealCaller

UnknownCaller == [functionName |-> "Global Scope", file |-> "unknown", line |-> "?"]

\* IsLoggerFrame without the test of the symbol name.
IsLoggerFrame_PathOnly(func, fullPath) ==
    \/ Includes(fullPath, "console-logger-fresh.js")
    \/ Includes(fullPath, "console_log_extension_fresh")

\* IsLoggerFrame without the test of the second path marker.
IsLoggerFrame_OneMarker(func, fullPath) ==
    \/ Includes(fullPath, "console-logger-fresh.js")
    \/ Includes(func, "ConsoleLogExtension")

\* The test of the "Skip references to the logger" branch.
IsLoggerFrame(func, fullPath) ==
    \/ Includes(fullPath, "console-logger-fresh.js")
    \/ Includes(fullPath, "console_log_extension_fresh")
    \/ Includes(func, "ConsoleLogExtension")

\* fullPath.split(/[\\/]/).pop() || "unknown"
BaseName(fullPath) ==
    LET parts == SplitOn(fullPath, {"/", "\\"})
        last  == parts[Len(parts)]
    IN  IF last = "" THEN "unknown" ELSE last

\* The descriptor built from a matched frame that is not skipped.
Descriptor(func, fullPath, lineNum) ==
    [functionName |-> IF func # "<anonymous>" THEN func ELSE "Global Scope",
     file         |-> BaseName(fullPath),
     line         |-> lineNum]

\* The loop over stackLines[i], i = 1 .. length-1 (1-based here: i = 2 .. Len).
RECURSIVE ScanFrom(_, _)
ScanFrom(stackLines, i) ==
    IF i > Len(stackLines)
    THEN UnknownCaller
    ELSE LET match == FrameMatch(stackLines[i])
         IN  IF match = <<>>
             THEN ScanFrom(stackLines, i + 1)
             ELSE LET func     == IF match[1] # "" THEN match[1] ELSE "Global Scope"
                      fullPath == IF match[2] # "" THEN match[2] ELSE "unknown"
                      lineNum  == IF match[3] # "" THEN match[3] ELSE "?"
                  IN  IF IsLoggerFrame(func, fullPath)
                      THEN ScanFrom(stackLines, i + 1)
                      ELSE Descriptor(func, fullPath, lineNum)

\* err.stack.split("\n").map((line) => line.trim())
StackLines(errStack) ==
    LET raw == SplitOn(errStack, {"\n"})
    IN  [i \in 1..Len(raw) |-> Trim(raw[i])]

findRealCaller(errStack) == ScanFrom(StackLines(errStack), 2)

\* ------------------------------------------------- traces given to the resolver

\* Frame lines as the engines print them; the last has a carriage return in
\* its path.
FrameLines == <<
    "at foo (/app/src/main.js:10:5)",
    "at ConsoleLogExtension.log (/lib/index.js:95:39)",
    "at helper (/lib/console-logger-fresh.js:7:3)",
    "at wrap (/lib/console_log_extension_fresh/index.js:7:3)",
    "at <anonymous> (C:\\app\\page.js:3:1)",
    "at /app/top.js:20:1",
    "at go http://localhost:8080/js/app.js:12:7",
    "at bar (http://localhost:3000/:12:5)",
    "bar@http://localhost/app.js:4:2",
    "at native",
    "at odd (/app/a\rb.js:1:2)"
>>

Headers == {"Error", ""}

RECURSIVE SeqsUpTo(_, _)
SeqsUpTo(S, n) ==
    IF n = 0 THEN {<<>>}
    ELSE LET shorter == SeqsUpTo(S, n - 1)
         IN  shorter \cup {Append(q, x) : q \in {r \in shorter : Len(r) = n - 1}, x \in S}

RECURSIVE BuildStack(_, _)
BuildStack(header, fs) ==
    IF fs = <<>> THEN header
    ELSE BuildStack(header, SubSeq(fs, 1, Len(fs) - 1))
            \o "\n    " \o FrameLines[fs[Len(fs)]]

\* ---------------------------------------------------------------- constructor

Keys == {"theme", "showDate", "showFilename", "showLineNumber", "showLogLevel",
         "useEmojis", "disable", "errorHandling"}

DefaultConfig ==
    [theme |-> "dark", showDate |-> TRUE, showFilename |-> TRUE,
     showLineNumber |-> TRUE, showLogLevel |-> TRUE, useEmojis |-> TRUE,
     disable |-> FALSE, errorHandling |-> "silent"]

NoEnv == [stack |-> "", now |-> "", fail |-> "none"]
NoCaller == [functionName |-> "", file |-> "", line |-> ""]
EmptyObject == [k \in {} |-> TRUE]

InitFacade ==
    /\ config = DefaultConfig
    /\ op = "none"
    /\ userConfig = EmptyObject
    /\ args = <<>>
    /\ env = NoEnv
    /\ calls = <<>>
    /\ resolverCalls = 0
    /\ thrown = "none"
    /\ hist = <<>>

\* ------------------------------------------------------------------- init

\* init merging over the defaults, { ...defaults, ...userConfig }.
init_OverDefaults(cfg, u) ==
    [k \in DOMAIN DefaultConfig \cup DOMAIN u |-> IF k \in DOMAIN u THEN u[k] ELSE DefaultConfig[k]]

\* init replacing the configuration, this.config = userConfig.
init_Replace(cfg, u) == u

\* { ...this.config, ...userConfig }: every key of either, userConfig's value
\* where it has the key.
init(cfg, u) ==
    [k \in DOMAIN cfg \cup DOMAIN u |-> IF k \in DOMAIN u THEN u[k] ELSE cfg[k]]

\* ------------------------------------------------------------ lookup tables

KnownLevels == {"[INFO]", "[WARNING]", "[ERROR]", "[DEBUG]"}

\* detectLogLevel taking any bracketed first argument for a level.
detectLogLevel_Bracketed(a) ==
    IF Len(a) > 0 /\ Len(a[1]) >= 2 /\ Ch(a[1], 1) = "[" /\ Ch(a[1], Len(a[1])) = "]"
    THEN a[1] ELSE ""

\* knownLevels.includes(msg) ? msg : null, with "" for null; a is the args
\* array, whose args[0] is undefined when it is empty.
detectLogLevel(a) ==
    IF Len(a) > 0 /\ a[1] \in KnownLevels THEN a[1] ELSE ""

\* The emojis are named here, not spelled.
mapping ==
    [k \in KnownLevels \cup {"[LOG]"} |->
        CASE k = "[INFO]"    -> "<i>"
          [] k = "[WARNING]" -> "<!>"
          [] k = "[ERROR]"   -> "<x>"
          [] k = "[DEBUG]"   -> "<bug>"
          [] k = "[LOG]"     -> "<memo>"]

\* mapping[level] || mapping["[LOG]"]
getLogLevelEmoji(level) == OrElse(Get(mapping, level), Get(mapping, "[LOG]"))

levelStyles ==
    [k \in KnownLevels \cup {"[LOG]"} |->
        CASE k = "[INFO]"    -> "color: blue; font-weight: bold;"
          [] k = "[WARNING]" -> "color: orange; font-weight: bold;"
          [] k = "[ERROR]"   -> "color: red; font-weight: bold;"
          [] k = "[DEBUG]"   -> "color: gray; font-style: italic;"
          [] k = "[LOG]"     -> ""]

themeStyles ==
    [k \in {"dark", "light", "neon", "minimal"} |->
        CASE k = "dark"    -> "color: white;"
          [] k = "light"   -> "color: black;"
          [] k = "neon"    -> "color: cyan; font-weight: bold;"
          [] k = "minimal" -> "color: gray; font-style: italic;"]

\* finalLevelStyle
LevelStyle(level) == OrElse(Get(levelStyles, level), Str(""))

\* finalThemeStyle
ThemeStyle(theme) == OrElse(Get(themeStyles, theme), Get(themeStyles, "dark"))

\* finalLevelStyle + finalThemeStyle
getThemeStyles(theme, level) == ToText(LevelStyle(level)) \o ToText(ThemeStyle(theme))

\* ------------------------------------------------------ what the callers pass

Themes == {"dark", "light", "neon", "minimal"}
ErrorModes == {"silent", "fallback", "throw"}

\* The values callers hand to init for a key: its documented values, and for
\* the string-valued keys values outside them; for the theme an unknown name
\* and two names that every object inherits a member for.
Offered(k) ==
    CASE k = "theme"         -> Themes \cup {"solarized", "constructor", "__proto__"}
      [] k = "errorHandling" -> ErrorModes \cup {"ignore"}
      [] OTHER               -> BOOLEAN

ReadmeExample == [theme |-> "light", showLineNumber |-> FALSE, errorHandling |-> "throw"]

Partials ==
    {EmptyObject, ReadmeExample, [k \in {"verbose"} |-> TRUE]}
    \cup UNION {{[x \in {k} |-> v] : v \in Offered(k)} : k \in Keys}

FirstArgs == KnownLevels \cup {"[LOG]", "x"}
RestArgs == {"x", "[ERROR]"}

ArgLists ==
    {<<>>} \cup {<<f>> \o r : f \in FirstArgs, r \in SeqsUpTo(RestArgs, MaxRest)}

Clock == "1/2/2026, 3:04:05 PM"

\* Traces as log's own findRealCaller sees them: the logger's frame first.
EnvStacks == {BuildStack("Error", <<2, 1>>), BuildStack("Error", <<2, 5>>),
              BuildStack("Error", <<2, 8>>), BuildStack("Error", <<2>>)}

\* What the host gives one log call: the trace of new Error(), the text of
\* new Date().toLocaleString(), and the step it makes fail, if any: "date"
\* (toLocaleString throws), "resolver" (err.stack is not a string, so split
\* throws), "output" (console.log throws on the styled call).
Envs ==
    {[stack |-> s, now |-> Clock, fail |-> "none"] : s \in EnvStacks}
    \cup {[stack |-> BuildStack("Error", <<2, 1>>), now |-> Clock, fail |-> f] :
            f \in {"date", "output"}}
    \cup {[stack |-> "", now |-> Clock, fail |-> "resolver"]}

\* -------------------------------------------------------------------- log

\* PrefixParts with the level tag pushed only if showLogLevel.
PrefixParts_GatedLevel(cfg, level, now, c) ==
    (IF cfg.useEmojis THEN <<getLogLevelEmoji(level)>> ELSE <<>>)
    \o (IF cfg.showDate THEN <<Str("[" \o now \o "]")>> ELSE <<>>)
    \o (IF cfg.showFilename /\ c.file # "unknown" THEN <<Str("[" \o c.file \o "]")>> ELSE <<>>)
    \o (IF cfg.showLineNumber /\ c.line # "?" THEN <<Str("(line " \o c.line \o ")")>> ELSE <<>>)
    \o (IF c.functionName # "" /\ c.functionName # "Global Scope"
        THEN <<Str("{" \o c.functionName \o "}")>> ELSE <<>>)
    \o (IF cfg.showLogLevel THEN <<Str(level)>> ELSE <<>>)

\* prefixParts after the pushes, given the level and the caller found.
PrefixParts(cfg, level, now, c) ==
    (IF cfg.useEmojis THEN <<getLogLevelEmoji(level)>> ELSE <<>>)
    \o (IF cfg.showDate THEN <<Str("[" \o now \o "]")>> ELSE <<>>)
    \o (IF cfg.showFilename /\ c.file # "unknown" THEN <<Str("[" \o c.file \o "]")>> ELSE <<>>)
    \o (IF cfg.showLineNumber /\ c.line # "?" THEN <<Str("(line " \o c.line \o ")")>> ELSE <<>>)
    \o (IF c.functionName # "" /\ c.functionName # "Global Scope"
        THEN <<Str("{" \o c.functionName \o "}")>> ELSE <<>>)
    \o <<Str(level)>>

\* this.findRealCaller() inside log, for each trace a host of Envs produces.
CallerOf == [s \in {e.stack : e \in Envs} |-> findRealCaller(s)]

\* The arguments of console.log(`%c${prefix}`, this.getThemeStyles(...), ...args).
StyledCall(cfg, logLevel, rest, now, c) ==
    <<"%c" \o JoinSpace(PrefixParts(cfg, logLevel, now, c)) \o " ",
      getThemeStyles(cfg.theme, logLevel)>> \o rest

\* The steps of the try block after the level detection, rest being args as
\* reassigned and styled the console.log call it ends with: where it stopped
\* ("" when it ran to its end), the value of args then, the console.log calls
\* made and the resolver runs.
TrySteps(cfg, e, rest, styled) ==
    IF cfg.showDate /\ e.fail = "date"
    THEN [error |-> "date", args |-> rest, calls |-> <<>>, resolverCalls |-> 0]
    ELSE IF e.fail = "resolver"
    THEN [error |-> "resolver", args |-> rest, calls |-> <<>>, resolverCalls |-> 1]
    ELSE IF e.fail = "output"
    THEN [error |-> "output", args |-> rest, calls |-> <<styled>>, resolverCalls |-> 1]
    ELSE [error |-> "", args |-> rest, calls |-> <<styled>>, resolverCalls |-> 1]

\* The try block.
TryBlock(cfg, a, e) ==
    LET detected == detectLogLevel(a)
        logLevel == IF detected # "" THEN detected ELSE "[LOG]"
        rest     == IF detected # "" THEN Tail(a) ELSE a
    IN  TrySteps(cfg, e, rest, StyledCall(cfg, logLevel, rest, e.now, CallerOf[e.stack]))

\* CatchBlock that rethrows only after trying the plain console.log.
CatchBlock_LogThenThrow(cfg, t) ==
    [calls         |-> IF cfg.errorHandling = "silent" THEN t.calls ELSE Append(t.calls, t.args),
     resolverCalls |-> t.resolverCalls,
     thrown        |-> IF cfg.errorHandling = "throw" THEN t.error ELSE "none"]

\* The catch block, entered with what the try block left: the calls made, the
\* resolver runs and the error that escapes log.
CatchBlock(cfg, t) ==
    [calls         |-> IF cfg.errorHandling = "fallback" THEN Append(t.calls, t.args) ELSE t.calls,
     resolverCalls |-> t.resolverCalls,
     thrown        |-> IF cfg.errorHandling = "throw" THEN t.error ELSE "none"]

\* log once the try block has run as t.
AfterTry(cfg, t) ==
    IF t.error = ""
    THEN [calls |-> t.calls, resolverCalls |-> t.resolverCalls, thrown |-> "none"]
    ELSE CatchBlock(cfg, t)

\* log running the try block, resolver included, before it tests config.disable.
log_LateDisable(cfg, a, e) ==
    IF cfg.disable
    THEN [calls |-> <<>>, resolverCalls |-> 1, thrown |-> "none"]
    ELSE AfterTry(cfg, TryBlock(cfg, a, e))

\* log(...a) with the host behaving as e says.
log(cfg, a, e) ==
    IF cfg.disable
    THEN [calls |-> <<>>, resolverCalls |-> 0, thrown |-> "none"]
    ELSE AfterTry(cfg, TryBlock(cfg, a, e))

\* ------------------------------------------------------------------ actions

InitIdle ==
    /\ InitFacade
    /\ frames = <<>>
    /\ stack = ""
    /\ caller = NoCaller

\* log.init(u)
Configure(u) ==
    /\ config' = init(config, u)
    /\ op' = "init"
    /\ userConfig' = u
    /\ args' = <<>>
    /\ env' = NoEnv
    /\ calls' = <<>>
    /\ resolverCalls' = 0
    /\ thrown' = "none"
    /\ UNCHANGED <<frames, stack, caller>>

\* What a log call leaves to be seen.
Observed(a, e, r) ==
    /\ op' = "log"
    /\ args' = a
    /\ env' = e
    /\ calls' = r.calls
    /\ resolverCalls' = r.resolverCalls
    /\ thrown' = r.thrown
    /\ userConfig' = EmptyObject
    /\ UNCHANGED <<config, frames, stack, caller>>

\* log(...a)
Emit(a, e) == Observed(a, e, log(config, a, e))

CallInit ==
    /\ op = "none"
    /\ \E u \in Partials : Configure(u)
    /\ UNCHANGED hist

CallLog ==
    /\ op = "none"
    /\ \E a \in ArgLists : \E e \in Envs : Emit(a, e)
    /\ UNCHANGED hist

\* The call has returned to the caller, who goes on to the next one.
Return ==
    /\ op \in {"init", "log"}
    /\ op' = "none"
    /\ userConfig' = EmptyObject
    /\ args' = <<>>
    /\ env' = NoEnv
    /\ calls' = <<>>
    /\ resolverCalls' = 0
    /\ thrown' = "none"
    /\ UNCHANGED <<config, hist, frames, stack, caller>>

Next == CallInit \/ CallLog \/ Return

Spec == InitIdle /\ [][Next]_vars

\* ------------------------------------------- init calls with their history

RecordedInit ==
    /\ Len(hist) < MaxInits
    /\ \E u \in Partials : Configure(u) /\ hist' = Append(hist, u)

NextConfig == RecordedInit

SpecConfig == InitIdle /\ [][NextConfig]_vars

\* ------------------------------------------------------ the resolver on its own

InitResolve ==
    /\ InitFacade
    /\ frames \in SeqsUpTo(1..Len(FrameLines), MaxFrames)
    /\ \E h \in Headers : stack = BuildStack(h, frames)
    /\ caller = NoCaller

Resolve ==
    /\ op = "none"
    /\ op' = "resolve"
    /\ caller' = findRealCaller(stack)
    /\ resolverCalls' = 1
    /\ UNCHANGED <<config, userConfig, args, env, calls, thrown, hist, frames, stack>>

NextResolve == Resolve

SpecResolve == InitResolve /\ [][NextResolve]_vars



\* ========================================================================
\* The claims
\* ========================================================================

\* What each line of FrameLines is, read by eye: the caller's frame with its
\* symbol, the last segment of its path and its line; a frame of the logger;
\* a line the pattern does not match ("none").  Line 6 has a location and no
\* symbol; the pattern needs a blank between "at " and the location and does
\* not match it.  Line 11 has a carriage return in its path, which . does not
\* match.
FrameFacts == <<
    [kind |-> "caller", symbol |-> "foo",         segment |-> "main.js", line |-> "10"],
    [kind |-> "logger", symbol |-> "",            segment |-> "",        line |-> ""],
    [kind |-> "logger", symbol |-> "",            segment |-> "",        line |-> ""],
    [kind |-> "logger", symbol |-> "",            segment |-> "",        line |-> ""],
    [kind |-> "caller", symbol |-> "<anonymous>", segment |-> "page.js", line |-> "3"],
    [kind |-> "nosymbol", symbol |-> "",          segment |-> "top.js",  line |-> "20"],
    [kind |-> "caller", symbol |-> "go",          segment |-> "app.js",  line |-> "12"],
    [kind |-> "caller", symbol |-> "bar",         segment |-> "",        line |-> "12"],
    [kind |-> "none",   symbol |-> "",            segment |-> "",        line |-> ""],
    [kind |-> "none",   symbol |-> "",            segment |-> "",        line |-> ""],
    [kind |-> "none",   symbol |-> "",            segment |-> "",        line |-> ""]
>>

\* The first position of fs whose frame is of one of the kinds, 0 if none.
FirstOfKind(fs, kinds) ==
    LET at == {i \in 1..Len(fs) : FrameFacts[fs[i]].kind \in kinds}
    IN  IF at = {} THEN 0 ELSE Min(at)

Resolved == op = "resolve"

\* ---- C1 ----------------------------------------------------------------

\* C1 as stated: the resolver returns the first frame that matches the pattern
\* and is not the logger's, with the last segment of its path as the file, its
\* line unchanged, and "<anonymous>" turned into "Global Scope".
C1_FileIsLastSegment ==
    LET i == FirstOfKind(frames, {"caller"})
    IN  Resolved /\ i > 0 =>
            LET f == FrameFacts[frames[i]]
            IN  caller = [functionName |-> IF f.symbol = "<anonymous>"
                                           THEN "Global Scope" ELSE f.symbol,
                          file         |-> f.segment,
                          line         |-> f.line]

\* C1 amended: the same, the file being "unknown" when the last segment of the
\* path is empty (a path that ends in a separator).
C1_FirstCallerFrame ==
    LET i == FirstOfKind(frames, {"caller"})
    IN  Resolved /\ i > 0 =>
            LET f == FrameFacts[frames[i]]
            IN  caller = [functionName |-> IF f.symbol = "<anonymous>"
                                           THEN "Global Scope" ELSE f.symbol,
                          file         |-> IF f.segment = "" THEN "unknown" ELSE f.segment,
                          line         |-> f.line]

\* Two frames of the logger, then a caller whose path ends in "/".
C1_Witness ==
    /\ Resolved
    /\ frames = <<2, 4, 8>>
    /\ caller = [functionName |-> "bar", file |-> "unknown", line |-> "12"]

\* ---- C2 ----------------------------------------------------------------

\* C2: a frame with a location and no symbol, when no caller frame precedes
\* it, is returned as the caller, with "Global Scope", its file and its line.
C2_SymbolLessFrameIsCaller ==
    LET i == FirstOfKind(frames, {"caller", "nosymbol"})
    IN  Resolved /\ i > 0 /\ FrameFacts[frames[i]].kind = "nosymbol" =>
            caller = [functionName |-> "Global Scope",
                      file         |-> FrameFacts[frames[i]].segment,
                      line         |-> FrameFacts[frames[i]].line]

\* ---- C8 ----------------------------------------------------------------

\* C8: when no line after the header matches the pattern and survives the
\* logger filter, the resolver returns {Global Scope, unknown, ?} and raises
\* nothing.
C8_UnknownWhenNothingSurvives ==
    Resolved /\ FirstOfKind(frames, {"caller"}) = 0 =>
        /\ caller = [functionName |-> "Global Scope", file |-> "unknown", line |-> "?"]
        /\ thrown = "none"

\* A frame of the logger, an unparseable line, another frame of the logger.
C8_Witness ==
    /\ Resolved
    /\ frames = <<2, 9, 4>>
    /\ caller.file = "unknown"
    /\ caller.line = "?"

\* ---- the log calls -----------------------------------------------------

\* Whether the host made the try block of the last log call fail.
Failed ==
    \/ env.fail \in {"resolver", "output"}
    \/ env.fail = "date" /\ config.showDate

Logged == op = "log" /\ ~config.disable

\* The console.log calls of the last log call after its styled one.
PlainCalls == IF env.fail = "output" THEN Tail(calls) ELSE calls

\* ---- C3 ----------------------------------------------------------------

\* C3: a log call that fails under "fallback" makes exactly one plain
\* console.log call, with the arguments log was called with.
C3_FallbackForwardsOriginalArgs ==
    Logged /\ Failed /\ config.errorHandling = "fallback" =>
        /\ Len(calls) >= 1
        /\ PlainCalls = <<args>>

\* ---- C4 ----------------------------------------------------------------

\* C4: a log call made while config.disable is set calls neither console.log
\* nor the resolver, whatever it is given; one made while it is clear, with
\* the host sound, prints.
C4_DisabledLogDoesNothing ==
    /\ op = "log" /\ config.disable =>
            calls = <<>> /\ resolverCalls = 0 /\ thrown = "none"
    /\ Logged /\ ~Failed => Len(calls) = 1 /\ resolverCalls = 1

\* Disabled, in "throw" mode, with a host whose stack cannot be read.
C4_Witness ==
    /\ op = "log"
    /\ config.disable
    /\ config.errorHandling = "throw"
    /\ env.fail = "resolver"
    /\ args = <<"[ERROR]", "x">>
    /\ calls = <<>>

\* ---- C5 ----------------------------------------------------------------

\* C5: whichever step fails, under "silent" nothing escapes log and no
\* console.log call follows; under "throw" the error caught escapes log and no
\* console.log call follows.
C5_SilentAndThrow ==
    Logged /\ Failed =>
        /\ config.errorHandling = "silent" => thrown = "none" /\ PlainCalls = <<>>
        /\ config.errorHandling = "throw" => thrown = env.fail /\ PlainCalls = <<>>

\* console.log itself threw, in "throw" mode.
C5_Witness ==
    /\ Logged
    /\ config.errorHandling = "throw"
    /\ env.fail = "output"
    /\ thrown = "output"
    /\ Len(calls) = 1

\* ---- C6 ----------------------------------------------------------------

IsPrefixOf(p, s) == Len(p) <= Len(s) /\ SubSeq(s, 1, Len(p)) = p
IsSuffixOf(p, s) == Len(p) <= Len(s) /\ SubSeq(s, Len(s) - Len(p) + 1, Len(s)) = p

\* The one call of a log call that went through carries the level's tag and
\* style, and the level's emoji if emojis are on, followed by the values fwd.
PrintedAs(level, fwd) ==
    /\ Len(calls) = 1
    /\ IsSuffixOf(level \o " ", calls[1][1])
    /\ calls[1][2] = getThemeStyles(config.theme, level)
    /\ config.useEmojis => IsPrefixOf("%c" \o ToText(getLogLevelEmoji(level)) \o " ", calls[1][1])
    /\ SubSeq(calls[1], 3, Len(calls[1])) = fwd

\* C6: the first argument is taken as the level, and dropped from what is
\* forwarded, if and only if it is one of the four tokens; otherwise the level
\* is [LOG] and every argument is forwarded, in order.
C6_LevelDetection ==
    Logged /\ ~Failed =>
        IF args # <<>> /\ args[1] \in {"[INFO]", "[WARNING]", "[ERROR]", "[DEBUG]"}
        THEN PrintedAs(args[1], Tail(args))
        ELSE PrintedAs("[LOG]", args)

\* A token in second place stays where it is.
C6_Witness ==
    /\ Logged
    /\ args = <<"x", "[ERROR]">>
    /\ env.fail = "none"
    /\ Len(calls) = 1
    /\ SubSeq(calls[1], 3, 4) = <<"x", "[ERROR]">>

\* ---- C10 ---------------------------------------------------------------

\* The texts of the parts that are on, each followed by a blank.
RECURSIVE Spaced(_)
Spaced(parts) ==
    IF parts = <<>> THEN ""
    ELSE (IF parts[1].on THEN parts[1].text \o " " ELSE "") \o Spaced(Tail(parts))

ExpectedPrefix ==
    LET c     == CallerOf[env.stack]
        level == IF detectLogLevel(args) = "" THEN "[LOG]" ELSE detectLogLevel(args)
    IN  Spaced(<<
            [on |-> config.useEmojis, text |-> ToText(getLogLevelEmoji(level))],
            [on |-> config.showDate, text |-> "[" \o env.now \o "]"],
            [on |-> config.showFilename /\ c.file # "unknown", text |-> "[" \o c.file \o "]"],
            [on |-> config.showLineNumber /\ c.line # "?", text |-> "(line " \o c.line \o ")"],
            [on |-> c.functionName # "Global Scope", text |-> "{" \o c.functionName \o "}"],
            [on |-> TRUE, text |-> level] >>)

\* C10: a log call that goes through makes one console.log call, whose prefix
\* is made of the emoji, the timestamp, [file], (line N), {functionName} and
\* the level tag, in that order, each present under its own condition and the
\* level tag always, joined by blanks and followed by one blank.
C10_PrefixOrder ==
    Logged /\ ~Failed =>
        /\ Len(calls) = 1
        /\ calls[1][1] = "%c" \o ExpectedPrefix

\* showLogLevel and showDate off, a caller whose file is unknown.
C10_Witness ==
    /\ Logged
    /\ ~config.showLogLevel
    /\ ~config.showDate
    /\ config.useEmojis
    /\ env.fail = "none"
    /\ env.stack = BuildStack("Error", <<2, 8>>)
    /\ args = <<"x">>
    /\ calls = << <<"%c<memo> (line 12) {bar} [LOG] ", "color: white;", "x">> >>

\* ---- C7 ----------------------------------------------------------------

\* The value the most recent partial of h that has key k gives it, the default
\* if none has.
RECURSIVE MostRecent(_, _)
MostRecent(h, k) ==
    IF h = <<>> THEN DefaultConfig[k]
    ELSE IF k \in DOMAIN h[Len(h)] THEN h[Len(h)][k]
    ELSE MostRecent(SubSeq(h, 1, Len(h) - 1), k)

\* C7: after any init calls, each key holds what the most recent partial with
\* that key gave it, or its default; init({}) changes nothing, init(X) twice
\* is init(X) once, and init({theme: "light"}) on the defaults changes theme
\* alone.
C7_MergeKeepsMostRecent ==
    LET before == SubSeq(hist, 1, Len(hist) - 1)
    IN  /\ \A k \in Keys : config[k] = MostRecent(hist, k)
        /\ hist # <<>> /\ hist[Len(hist)] = EmptyObject =>
                \A k \in Keys : config[k] = MostRecent(before, k)
        /\ Len(hist) >= 2 /\ hist[Len(hist)] = hist[Len(hist) - 1] =>
                \A k \in Keys : config[k] = MostRecent(before, k)
        /\ hist = <<[k \in {"theme"} |-> "light"]>> =>
                config = [DefaultConfig EXCEPT !.theme = "light"]

\* The README's partial, then showLineNumber set back.
C7_Witness ==
    /\ hist = <<ReadmeExample, [k \in {"showLineNumber"} |-> TRUE]>>
    /\ config.theme = "light"
    /\ config.showLineNumber
    /\ config.errorHandling = "throw"
    /\ config.showDate

\* ---- C9 ----------------------------------------------------------------

\* The documented values of a key.
Domain(k) ==
    CASE k = "theme"         -> {"dark", "light", "neon", "minimal"}
      [] k = "errorHandling" -> {"silent", "fallback", "throw"}
      [] OTHER               -> BOOLEAN

\* C9 as stated: the configuration always has the eight keys and no other,
\* each with a value of its domain.
C9_AlwaysValid ==
    /\ DOMAIN config = Keys
    /\ \A k \in Keys : config[k] \in Domain(k)

\* C9 amended: the eight keys are always present; a key's value leaves its
\* domain only by an init call that gives it a value outside it; log never
\* changes the configuration.
C9_KeysStayLogKeeps ==
    /\ [](Keys \subseteq DOMAIN config)
    /\ [][/\ op' = "log" => config' = config
          /\ \A k \in Keys :
                (/\ config[k] \in Domain(k)
                 /\ (k \in DOMAIN userConfig' => userConfig'[k] \in Domain(k)))
                => config'[k] \in Domain(k)]_vars

\* A log call that printed under a theme outside the documented ones and with
\* a key the logger does not know.
C9_Witness ==
    /\ Logged
    /\ config.theme = "solarized"
    /\ "verbose" \in DOMAIN config
    /\ env.fail = "none"
    /\ Len(calls) = 1

====
